---------------------------- MODULE Spec2Model ----------------------------
(***************************************************************************)
(* QR steganography codec (doredesign/qr-steganography).                   *)
(*                                                                         *)
(* The library is a set of pure functions: bit framing with a CRC-16       *)
(* (utils/bit-utils.ts), the prime-step distribution (utils/prime-utils.ts),*)
(* the structural analyzer and capacity model (utils/qr-analyzer.ts), the  *)
(* encoder (core/QRStegoEncoder.ts) and the decoder and public API         *)
(* (core/QRStego.ts).  Each function is an operator computed the way the   *)
(* code computes it; each specification draws the inputs of one group of   *)
(* functions from bounded sets and its actions are the calls.              *)
(*                                                                         *)
(* Strings are JavaScript strings: sequences of UTF-16 code units.  Bytes  *)
(* are 0..255, bit vectors are sequences of BOOLEAN.  A call that throws   *)
(* returns [ok |-> FALSE, error |-> <message>].                            *)
(***************************************************************************)
EXTENDS Integers, Sequences, FiniteSets, TLC

VARIABLES
    message,        \* bit-utils: the string handed to encodeSecondaryMessage
    maxBits,        \* bit-utils: the maxBits argument
    frame,          \* bit-utils: result of encodeSecondaryMessage (bits or error)
    flippedBit,     \* bit-utils: 0-based offset of the bit corrupted in flight, or -1
    decoded,        \* bit-utils: result of decodeSecondaryMessage
    bitsNeeded,     \* prime-utils: argument of generateDistributionPattern
    totalModules,   \* prime-utils: argument of generateDistributionPattern
    pattern,        \* prime-utils: result of generateDistributionPattern
    walked,         \* decoder: the module indices extractBitsFromFlips visits
    qrcode,         \* analyzer: the QR engine's code under analysis
    converter,      \* analyzer: which conversion built the QRMatrix
    flippable,      \* analyzer: result of identifyFlippableModules
    flippableCount, \* capacity: number of flippable modules
    capLog,         \* capacity: the (safetyMargin, capacity) answers given so far
    primary,        \* codec: the primary message
    secondary,      \* codec: the secondary message
    options,        \* codec: EncodeOptions
    stego,          \* codec: result of QRStego.encode
    valid,          \* codec: result of QRStego.validateCapacity
    scanned,        \* codec: the module matrix handed to decodeFromMatrix
    payload,        \* codec: result of QRStego.decodeFromMatrix
    tampered,       \* codec: frame bit whose module was inverted in the scan, or -1
    decodeOptions,  \* codec: DecodeOptions handed to QRStego.decode
    imagePayload,   \* codec: result of QRStego.decode on an image of the matrix
    rescanned,      \* codec: a second scan of the same code
    repayload,      \* codec: result of QRStego.decodeFromMatrix on the second scan
    crcInput,       \* checksum: the bytes handed to calculateChecksum
    crcResult,      \* checksum: result of calculateChecksum
    primeMax,       \* prime-utils: the max argument of findLargePrime
    largePrime      \* prime-utils: result of findLargePrime

vars == <<message, maxBits, frame, flippedBit, decoded, bitsNeeded, totalModules,
          pattern, walked, qrcode, converter, flippable, flippableCount, capLog, primary,
          secondary, options, stego, valid, scanned, payload, tampered,
          decodeOptions, imagePayload, rescanned, repayload, crcInput, crcResult,
          primeMax, largePrime>>

frameVars == <<message, maxBits, frame, flippedBit, decoded>>
distVars  == <<bitsNeeded, totalModules, pattern, walked>>
qrVars    == <<qrcode, converter, flippable>>
capVars   == <<flippableCount, capLog>>
codecVars == <<primary, secondary, options, stego, valid, scanned, payload, tampered,
               decodeOptions, imagePayload, rescanned, repayload>>
crcVars   == <<crcInput, crcResult>>
primeVars == <<primeMax, largePrime>>

\* The value of a variable no call has written yet.
None == [pending |-> TRUE]

Throw(msg) == [ok |-> FALSE, error |-> msg]
Return(v)  == [ok |-> TRUE, value |-> v]

-----------------------------------------------------------------------------
(* Integer bit operations on non-negative operands.                        *)

RECURSIVE BitXor(_, _, _)
\* a ^ b over the low n bits
BitXor(a, b, n) ==
    IF n = 0 THEN 0
    ELSE ((a + b) % 2) + 2 * BitXor(a \div 2, b \div 2, n - 1)

\* (n >> i) & 1
BitAt(n, i) == (n \div (2 ^ i)) % 2

\* The n-bit big-endian value of bits[from+1 .. from+n]: the loops
\* "if (bits[i]) value |= 1 << (n-1-i)".
RECURSIVE BitsToInt(_, _, _)
BitsToInt(bits, from, n) ==
    IF n = 0 THEN 0
    ELSE (IF bits[from + 1] THEN 2 ^ (n - 1) ELSE 0) + BitsToInt(bits, from + 1, n - 1)

\* The loop "for (i = n-1; i >= 0; i--) bits.push(((v >> i) & 1) === 1)".
IntToBits(v, n) == [k \in 1..n |-> BitAt(v, n - k) = 1]

-----------------------------------------------------------------------------
(* TextEncoder / TextDecoder as bit-utils.ts uses them (UTF-8, WHATWG      *)
(* Encoding): encode() first turns the string into scalar values, a lone   *)
(* surrogate becoming U+FFFD; decode() of a default-constructed            *)
(* TextDecoder (fatal: false, ignoreBOM: false) replaces malformed input   *)
(* by U+FFFD and drops one leading byte order mark.                        *)

ReplacementChar == 65533
ByteOrderMark   == 65279

IsHighSurrogate(u) == u >= 55296 /\ u <= 56319
IsLowSurrogate(u)  == u >= 56320 /\ u <= 57343

\* UTF-8 bytes of one scalar value.
Utf8OfCodePoint(cp) ==
    IF cp < 128 THEN <<cp>>
    ELSE IF cp < 2048 THEN <<192 + (cp \div 64), 128 + (cp % 64)>>
    ELSE IF cp < 65536
         THEN <<224 + (cp \div 4096), 128 + ((cp \div 64) % 64), 128 + (cp % 64)>>
    ELSE <<240 + (cp \div 262144), 128 + ((cp \div 4096) % 64),
           128 + ((cp \div 64) % 64), 128 + (cp % 64)>>

RECURSIVE TextEncode(_)
\* new TextEncoder().encode(str)
TextEncode(str) ==
    IF str = <<>> THEN <<>>
    ELSE LET u == Head(str) IN
         IF IsHighSurrogate(u) /\ Len(str) >= 2 /\ IsLowSurrogate(str[2])
         THEN Utf8OfCodePoint(65536 + (u - 55296) * 1024 + (str[2] - 56320))
                  \o TextEncode(Tail(Tail(str)))
         ELSE IF IsHighSurrogate(u) \/ IsLowSurrogate(u)
         THEN Utf8OfCodePoint(ReplacementChar) \o TextEncode(Tail(str))
         ELSE Utf8OfCodePoint(u) \o TextEncode(Tail(str))

\* UTF-16 code units of one scalar value.
CodeUnitsOf(cp) ==
    IF cp < 65536 THEN <<cp>>
    ELSE <<55296 + ((cp - 65536) \div 1024), 56320 + ((cp - 65536) % 1024)>>

RECURSIVE Utf8Decode(_, _, _, _, _, _)
\* The UTF-8 decoder's handler run over bytes[i..]: cp is the code point
\* being assembled, needed the continuation bytes still expected, and
\* [lower, upper] the range allowed for the next one.
Utf8Decode(bytes, i, cp, needed, lower, upper) ==
    IF i > Len(bytes)
    THEN (IF needed > 0 THEN <<ReplacementChar>> ELSE <<>>)
    ELSE LET byte == bytes[i] IN
         IF needed = 0
         THEN IF byte <= 127
              THEN <<byte>> \o Utf8Decode(bytes, i + 1, 0, 0, 128, 191)
              ELSE IF byte >= 194 /\ byte <= 223
              THEN Utf8Decode(bytes, i + 1, byte % 32, 1, 128, 191)
              ELSE IF byte >= 224 /\ byte <= 239
              THEN Utf8Decode(bytes, i + 1, byte % 16, 2,
                              IF byte = 224 THEN 160 ELSE 128,
                              IF byte = 237 THEN 159 ELSE 191)
              ELSE IF byte >= 240 /\ byte <= 244
              THEN Utf8Decode(bytes, i + 1, byte % 8, 3,
                              IF byte = 240 THEN 144 ELSE 128,
                              IF byte = 244 THEN 143 ELSE 191)
              ELSE <<ReplacementChar>> \o Utf8Decode(bytes, i + 1, 0, 0, 128, 191)
         ELSE IF byte < lower \/ byte > upper
              THEN <<ReplacementChar>> \o Utf8Decode(bytes, i, 0, 0, 128, 191)
              ELSE IF needed = 1
              THEN <<cp * 64 + (byte % 64)>> \o Utf8Decode(bytes, i + 1, 0, 0, 128, 191)
              ELSE Utf8Decode(bytes, i + 1, cp * 64 + (byte % 64), needed - 1, 128, 191)

RECURSIVE Utf16Of(_)
Utf16Of(cps) ==
    IF cps = <<>> THEN <<>> ELSE CodeUnitsOf(Head(cps)) \o Utf16Of(Tail(cps))

\* new TextDecoder().decode(bytes)
TextDecode(bytes) ==
    LET cps == Utf8Decode(bytes, 1, 0, 0, 128, 191)
    IN  Utf16Of(IF cps # <<>> /\ Head(cps) = ByteOrderMark THEN Tail(cps) ELSE cps)

-----------------------------------------------------------------------------
(* utils/bit-utils.ts                                                      *)

CRC_INIT == 65535   \* 0xFFFF
CRC_POLY == 4129    \* 0x1021
OVERHEAD_BITS == 32

\* The working register "checksum" is a 32-bit integer in JavaScript; it is
\* kept here as its two 16-bit halves [hi, lo].

\* checksum <<= 1
CrcShiftLeft(reg) ==
    [hi |-> (2 * reg.hi + (reg.lo \div 32768)) % 65536, lo |-> (2 * reg.lo) % 65536]

\* checksum = (checksum << 1) ^ 0x1021
CrcShiftFeedback(reg) ==
    [hi |-> CrcShiftLeft(reg).hi, lo |-> BitXor(CrcShiftLeft(reg).lo, CRC_POLY, 16)]

RECURSIVE CrcShifts(_, _)
\* n turns of the inner loop:
\*   if (checksum & 0x8000) checksum = (checksum << 1) ^ 0x1021; else checksum <<= 1;
CrcShifts(reg, n) ==
    IF n = 0 THEN reg
    ELSE IF BitAt(reg.lo, 15) = 1
         THEN CrcShifts(CrcShiftFeedback(reg), n - 1)
         ELSE CrcShifts(CrcShiftLeft(reg), n - 1)

\* One turn of the outer loop: checksum ^= byte << 8, then eight shifts.
CrcByte(reg, byte) ==
    CrcShifts([hi |-> reg.hi, lo |-> BitXor(reg.lo, byte * 256, 16)], 8)

RECURSIVE CrcRegister(_, _, _)
\* The outer loop from byte i on, reg being the register before it.  Each
\* half of the register is a 16-bit value.
CrcRegister(data_, i, reg) ==
    IF i > Len(data_) THEN reg
    ELSE LET next == CrcByte(reg, data_[i])
         IN  IF next.lo \in 0..65535 /\ next.hi \in 0..65535
             THEN CrcRegister(data_, i + 1, next)
             ELSE next

\* calculateChecksum returning the working register as it is, without the
\* final "& 0xFFFF".
calculateChecksumUnmasked(data_) ==
    LET reg == CrcRegister(data_, 1, [hi |-> 0, lo |-> CRC_INIT])
    IN  reg.hi * 65536 + reg.lo

\* calculateChecksum(data): checksum = 0xFFFF; the loop; return checksum & 0xFFFF
calculateChecksum(data_) == CrcRegister(data_, 1, [hi |-> 0, lo |-> CRC_INIT]).lo

RECURSIVE BytesToBits(_)
\* for (const byte of messageBytes) for (i = 7; i >= 0; i--) bits.push(...)
BytesToBits(bytes) ==
    IF bytes = <<>> THEN <<>>
    ELSE IntToBits(Head(bytes), 8) \o BytesToBits(Tail(bytes))

PayloadTooLarge  == "Secondary message too large"
ShortFrame       == "Insufficient bits for valid message"
BadLength        == "Invalid message length"
ChecksumMismatch == "Checksum mismatch"

\* encodeSecondaryMessage(message, maxBits)
encodeSecondaryMessage(msg, max) ==
    LET messageBytes == TextEncode(msg)
        totalBitsNeeded == OVERHEAD_BITS + Len(messageBytes) * 8
    IN  IF totalBitsNeeded > max
        THEN Throw(PayloadTooLarge)
        ELSE Return(IntToBits(Len(messageBytes), 16)
                        \o BytesToBits(messageBytes)
                        \o IntToBits(calculateChecksum(messageBytes), 16))

\* decodeSecondaryMessage without the comparison of the two checksums.
decodeSecondaryMessageUnchecked(bits) ==
    IF Len(bits) < 32 THEN Throw(ShortFrame)
    ELSE LET length == BitsToInt(bits, 0, 16) IN
         IF 8 * length > Len(bits) - 32 THEN Throw(BadLength)
         ELSE IF length = 0 THEN Return(<<>>)
         ELSE Return(TextDecode([byteIdx \in 1..length |->
                                    BitsToInt(bits, 16 + (byteIdx - 1) * 8, 8)]))

\* decodeSecondaryMessage(bits)
decodeSecondaryMessage(bits) ==
    IF Len(bits) < 32 THEN Throw(ShortFrame)
    ELSE LET length == BitsToInt(bits, 0, 16) IN
         IF 8 * length > Len(bits) - 32 THEN Throw(BadLength)
         ELSE IF length = 0 THEN Return(<<>>)
         ELSE LET messageBytes ==
                      [byteIdx \in 1..length |-> BitsToInt(bits, 16 + (byteIdx - 1) * 8, 8)]
                  checksum == BitsToInt(bits, 16 + length * 8, 16)
                  expectedChecksum == calculateChecksum(messageBytes)
              IN  IF checksum # expectedChecksum
                  THEN Throw(ChecksumMismatch)
                  ELSE Return(TextDecode(messageBytes))

-----------------------------------------------------------------------------
(* The variable groups a specification does not use stay unwritten.        *)

FrameIdle == message = None /\ maxBits = None /\ frame = None
               /\ flippedBit = None /\ decoded = None
DistIdle  == bitsNeeded = None /\ totalModules = None /\ pattern = None
               /\ walked = None
QrIdle    == qrcode = None /\ converter = None /\ flippable = None
CapIdle   == flippableCount = None /\ capLog = None
CrcIdle   == crcInput = None /\ crcResult = None
PrimeIdle == primeMax = None /\ largePrime = None
CodecIdle == primary = None /\ secondary = None /\ options = None /\ stego = None
               /\ valid = None /\ scanned = None /\ payload = None
               /\ tampered = None /\ decodeOptions = None /\ imagePayload = None
               /\ rescanned = None /\ repayload = None

-----------------------------------------------------------------------------
(* SpecFrame: the bit framing of utils/bit-utils.ts.  A message is framed, *)
(* at most one bit of the frame is corrupted in flight, and the received   *)
(* bits are decoded.                                                       *)

\* Code units the messages are built from: "A", e-acute (2 bytes), the byte
\* order mark U+FEFF (3 bytes), and the two halves of U+1F600 (4 bytes as a
\* pair, a lone surrogate otherwise).
Alphabet == {65, 233, 65279, 55357, 56832}

MaxMessageLen == 2

Messages == UNION {[1..n -> Alphabet] : n \in 0..MaxMessageLen}

\* maxBits arguments: below the overhead, at it, and the tests' 1000.
FrameBudgets == {0, 31, 32, 40, 56, 1000}

\* bits[i] = !bits[i] for the 0-based offset i; -1 leaves the frame alone.
CorruptAt(bits, i) ==
    IF i = -1 THEN bits ELSE [bits EXCEPT ![i + 1] = ~bits[i + 1]]

FrameInit ==
    /\ message \in Messages
    /\ maxBits \in FrameBudgets
    /\ frame = None
    /\ flippedBit = -1
    /\ decoded = None
    /\ DistIdle /\ QrIdle /\ CapIdle /\ CodecIdle /\ CrcIdle /\ PrimeIdle

EncodeFrame ==
    /\ frame = None
    /\ frame' = encodeSecondaryMessage(message, maxBits)
    /\ UNCHANGED <<message, maxBits, flippedBit, decoded>>
    /\ UNCHANGED <<distVars, qrVars, capVars, codecVars, crcVars, primeVars>>

CorruptBit ==
    /\ frame # None /\ frame.ok
    /\ flippedBit = -1 /\ decoded = None
    /\ \E i \in 0..(Len(frame.value) - 1) : flippedBit' = i
    /\ UNCHANGED <<message, maxBits, frame, decoded>>
    /\ UNCHANGED <<distVars, qrVars, capVars, codecVars, crcVars, primeVars>>

DecodeFrame ==
    /\ frame # None /\ frame.ok
    /\ decoded = None
    /\ decoded' = decodeSecondaryMessage(CorruptAt(frame.value, flippedBit))
    /\ UNCHANGED <<message, maxBits, frame, flippedBit>>
    /\ UNCHANGED <<distVars, qrVars, capVars, codecVars, crcVars, primeVars>>

FrameNext == EncodeFrame \/ CorruptBit \/ DecodeFrame

SpecFrame == FrameInit /\ [][FrameNext]_vars

\* Byte length of the message under UTF-8.
Utf8Len(str) == Len(TextEncode(str))

\* C2: frame round trip.  Whenever maxBits >= 32 + 8 * |utf8(m)| and the
\* frame built from m is decoded as it was built, decoding succeeds and
\* returns m.
C2_FrameRoundTrip ==
    (decoded # None /\ flippedBit = -1 /\ maxBits >= OVERHEAD_BITS + 8 * Utf8Len(message))
        => (decoded.ok /\ decoded.value = message)

\* C6: tamper detection.  For a frame with a non-empty payload, a single
\* flipped bit at an offset in 16 .. 16 + 8L - 1 makes decodeSecondaryMessage
\* throw the checksum mismatch.
C6_TamperDetection ==
    (/\ decoded # None
     /\ Utf8Len(message) > 0
     /\ flippedBit >= 16
     /\ flippedBit <= 16 + 8 * Utf8Len(message) - 1)
        => decoded = Throw(ChecksumMismatch)

\* C6 witness: a payload bit was flipped and the decoder refused the frame.
C6_Witness ==
    /\ decoded = Throw(ChecksumMismatch)
    /\ Utf8Len(message) > 0
    /\ flippedBit >= 16
    /\ flippedBit <= 16 + 8 * Utf8Len(message) - 1

-----------------------------------------------------------------------------
(* utils/prime-utils.ts                                                    *)

RECURSIVE HasNoOddDivisor(_, _)
\* for (let i = 3; i <= Math.sqrt(n); i += 2) if (n % i === 0) return false;
HasNoOddDivisor(n, i) ==
    IF i * i > n THEN TRUE
    ELSE IF n % i = 0 THEN FALSE
    ELSE HasNoOddDivisor(n, i + 2)

\* isPrime without the loop over the odd divisors.
isPrimeUntried(n) ==
    IF n < 2 THEN FALSE
    ELSE IF n = 2 THEN TRUE
    ELSE n % 2 # 0

\* isPrime(n)
isPrime(n) ==
    IF n < 2 THEN FALSE
    ELSE IF n = 2 THEN TRUE
    ELSE IF n % 2 = 0 THEN FALSE
    ELSE HasNoOddDivisor(n, 3)

RECURSIVE PrimeScan(_)
\* for (let candidate = ...; candidate > 2; candidate--) if (isPrime(candidate)) return candidate;
\* return 2;
PrimeScan(candidate) ==
    IF candidate <= 2 THEN 2
    ELSE IF isPrime(candidate) THEN candidate
    ELSE PrimeScan(candidate - 1)

\* findLargePrime started at max instead of max - 1.
findLargePrimeInclusive(max) == PrimeScan(max)

\* findLargePrime(max)
findLargePrime(max) == PrimeScan(max - 1)

CapacityExceeded == "Cannot fit bits into modules"

RECURSIVE DistributionLoop(_, _, _, _)
\* The loop of generateDistributionPattern with n turns left:
\*   indices.push(current % totalModules); current = (current + step) % totalModules;
DistributionLoop(n, current, step, total) ==
    IF n = 0 THEN <<>>
    ELSE <<current % total>> \o DistributionLoop(n - 1, (current + step) % total, step, total)

RECURSIVE DistributionLoopNoWrap(_, _, _, _)
\* The loop without the reduction modulo totalModules.
DistributionLoopNoWrap(n, current, step, total) ==
    IF n = 0 THEN <<>>
    ELSE <<current>> \o DistributionLoopNoWrap(n - 1, current + step, step, total)

generateDistributionPatternNoWrap(needed, total) ==
    IF needed > total THEN Throw(CapacityExceeded)
    ELSE Return(DistributionLoopNoWrap(needed, 0, findLargePrime(total), total))

\* generateDistributionPattern(bitsNeeded, totalModules)
generateDistributionPattern(needed, total) ==
    IF needed > total THEN Throw(CapacityExceeded)
    ELSE Return(DistributionLoop(needed, 0, findLargePrime(total), total))

RECURSIVE ExtractLoop(_, _, _, _)
\* A loop of extractBitsFromFlips (core/QRStego.ts) with n turns left, as the
\* list of the moduleIndex values it looks up:
\*   const moduleIndex = current % totalModules; ...
\*   current = (current + step) % totalModules;
ExtractLoop(n, current, step, totalModules_) ==
    IF n = 0 THEN <<>>
    ELSE <<current % totalModules_>>
             \o ExtractLoop(n - 1, (current + step) % totalModules_, step, totalModules_)

\* The two loops of extractBitsFromFlips with the second not started anew
\* from current = 0.
extractWalkNoReset(totalBits, totalModules_) ==
    LET step == findLargePrime(totalModules_)
    IN  [lengthPass |-> ExtractLoop(16, 0, step, totalModules_),
         fullPass |-> ExtractLoop(totalBits, (16 * step) % totalModules_, step,
                                  totalModules_)]

\* The two loops of extractBitsFromFlips: 16 turns from current = 0 for the
\* length, then totalBits turns from current = 0 again.
extractWalk(totalBits, totalModules_) ==
    LET step == findLargePrime(totalModules_)
    IN  [lengthPass |-> ExtractLoop(16, 0, step, totalModules_),
         fullPass |-> ExtractLoop(totalBits, 0, step, totalModules_)]

\* validateDistribution(pattern): new Set(pattern).size === pattern.length
validateDistribution(p) == Cardinality({p[i] : i \in 1..Len(p)}) = Len(p)

-----------------------------------------------------------------------------
(* SpecDist: generateDistributionPattern called on every pair of           *)
(* arguments up to MaxModules.                                             *)

MaxModules == 16

DistInit ==
    /\ totalModules \in 0..MaxModules
    /\ bitsNeeded \in 0..(MaxModules + 1)
    /\ pattern = None
    /\ walked = None
    /\ FrameIdle /\ QrIdle /\ CapIdle /\ CodecIdle /\ CrcIdle /\ PrimeIdle

GeneratePattern ==
    /\ pattern = None
    /\ pattern' = generateDistributionPattern(bitsNeeded, totalModules)
    /\ UNCHANGED <<bitsNeeded, totalModules, walked>>
    /\ UNCHANGED <<frameVars, qrVars, capVars, codecVars, crcVars, primeVars>>

\* Message lengths L the decoder may read from the length field.
MaxWalkBytes == 1

\* extractBitsFromFlips on a flippable list of totalModules entries whose
\* length field reads L: the indices it visits.  decodeFromMatrix calls it
\* only when some module differs, hence with at least one module.
ExtractWalk ==
    /\ walked = None
    /\ totalModules >= 1
    /\ \E L \in 0..MaxWalkBytes :
           walked' = extractWalk(16 + (L * 8) + 16, totalModules)
    /\ UNCHANGED <<bitsNeeded, totalModules, pattern>>
    /\ UNCHANGED <<frameVars, qrVars, capVars, codecVars, crcVars, primeVars>>

DistNext == GeneratePattern \/ ExtractWalk

SpecDist == DistInit /\ [][DistNext]_vars

\* C3 as stated: for need <= total and total >= 2 the entries of the
\* pattern are pairwise distinct.
C3_UniqueFromTwo ==
    (pattern # None /\ bitsNeeded <= totalModules /\ totalModules >= 2)
        => (pattern.ok /\ validateDistribution(pattern.value))

\* C3 amended: for need <= total and total >= 3 the entries of the pattern
\* are pairwise distinct.
C3_UniqueFromThree ==
    (pattern # None /\ bitsNeeded <= totalModules /\ totalModules >= 3)
        => (pattern.ok /\ validateDistribution(pattern.value))

\* C3 witness: a pattern that uses every one of at least three modules.
C3_Witness ==
    /\ pattern # None /\ pattern.ok
    /\ totalModules >= 3 /\ bitsNeeded = totalModules
    /\ validateDistribution(pattern.value)

\* C4: for need <= total the pattern has exactly need entries, each in
\* [0, total).
C4_IndexBounds ==
    (pattern # None /\ bitsNeeded <= totalModules)
        => /\ pattern.ok
           /\ Len(pattern.value) = bitsNeeded
           /\ \A i \in 1..Len(pattern.value) :
                  pattern.value[i] >= 0 /\ pattern.value[i] < totalModules

\* C4 witness: a generated pattern of several entries.
C4_Witness ==
    /\ pattern # None /\ pattern.ok
    /\ bitsNeeded >= 2 /\ Len(pattern.value) = bitsNeeded
    /\ \A i \in 1..Len(pattern.value) : pattern.value[i] < totalModules

-----------------------------------------------------------------------------
(* The QR engine (nayuki-qr-code-generator), external to the repository:   *)
(* QrCode.encodeText yields an object with size, version, mask,            *)
(* errorCorrectionLevel, getModule(x, y) and the function-module map       *)
(* isFunction[y][x].  A code is described here by its parameters; its      *)
(* module colours and its function-module map are functions of them.       *)

MIN_VERSION == 1
MAX_VERSION == 40

\* size = version * 4 + 17
EngineSize(version) == version * 4 + 17

RECURSIVE EngineAlignmentFill(_, _, _)
\* for (pos = size - 7; result.length < numAlign; pos -= step) result.splice(1, 0, pos)
EngineAlignmentFill(pos, step, n) ==
    IF n = 0 THEN <<>>
    ELSE EngineAlignmentFill(pos - step, step, n - 1) \o <<pos>>

\* getAlignmentPatternPositions(): the centre coordinates of ISO/IEC 18004
\* Annex E for the version.
EngineAlignmentPositions(version) ==
    IF version = 1 THEN <<>>
    ELSE LET numAlign == (version \div 7) + 2
             step == IF version = 32 THEN 26
                     ELSE ((version * 4 + numAlign * 2 + 1) \div (numAlign * 2 - 2)) * 2
         IN  <<6>> \o EngineAlignmentFill(EngineSize(version) - 7, step, numAlign - 1)

\* The centres at which an alignment pattern is drawn: every pair of
\* positions but the three that fall on a finder pattern.
EngineAlignmentCenters(version) ==
    LET pos == EngineAlignmentPositions(version)
        n == Len(pos)
    IN  IF n = 0 THEN {}
        ELSE {<<pos[i], pos[j]>> : i \in 1..n, j \in 1..n}
                 \ {<<pos[1], pos[1]>>, <<pos[1], pos[n]>>, <<pos[n], pos[1]>>}

\* The object QrCode.encodeText returns for a text that needs the given
\* version: its parameters and the alignment centres drawn in it.
EngineCode(version, ecl, mask, seed) ==
    [version |-> version, size |-> EngineSize(version), mask |-> mask, seed |-> seed,
     errorCorrectionLevel |-> ecl,
     alignmentCenters |-> EngineAlignmentCenters(version)]

Abs(n) == IF n < 0 THEN -n ELSE n

\* drawFunctionPatterns(): whether the engine marks (x, y) a function module.
EngineIsFunction(qr, x, y) ==
    LET size == qr.size IN
    \/ x = 6 \/ y = 6
    \/ (x <= 7 /\ y <= 7) \/ (x >= size - 8 /\ y <= 7) \/ (x <= 7 /\ y >= size - 8)
    \/ (\E c \in qr.alignmentCenters : Abs(x - c[1]) <= 2 /\ Abs(y - c[2]) <= 2)
    \/ (x = 8 /\ (y <= 8 \/ y >= size - 8))
    \/ (y = 8 /\ (x <= 8 \/ x >= size - 8))
    \/ (qr.version >= 7 /\ \/ (x >= size - 11 /\ x <= size - 9 /\ y <= 5)
                           \/ (y >= size - 11 /\ y <= size - 9 /\ x <= 5))

\* qr.getModule(x, y): the colour of a module, a fixed function of the code.
EngineGetModule(qr, x, y) ==
    ((x * x + 3 * y + qr.seed * (x + y + 1) + qr.mask) % 5) < 2

-----------------------------------------------------------------------------
(* core/types.ts                                                           *)

FINDER_PATTERN == 0
DATA_CODEWORD  == 6

ECLevel_L == 0
ECLevel_M == 1
ECLevel_Q == 2
ECLevel_H == 3

-----------------------------------------------------------------------------
(* utils/qr-analyzer.ts                                                    *)

\* ALIGNMENT_PATTERN_POSITIONS: the versions that have an entry, and the
\* entries.
AlignmentTableVersions == 2..7

ALIGNMENT_PATTERN_POSITIONS(version) ==
    CASE version = 2 -> <<6, 18>>
      [] version = 3 -> <<6, 22>>
      [] version = 4 -> <<6, 26>>
      [] version = 5 -> <<6, 30>>
      [] version = 6 -> <<6, 34>>
      [] version = 7 -> <<6, 22, 38>>

isInFinderPattern(x, y, size) ==
    LET inTopLeft == x < 9 /\ y < 9
        inTopRight == x >= size - 8 /\ y < 9
        inBottomLeft == x < 9 /\ y >= size - 8
    IN  inTopLeft \/ inTopRight \/ inBottomLeft

isInTimingPattern(x, y) == x = 6 \/ y = 6

isInAlignmentPattern(x, y, version) ==
    IF version < 2 THEN FALSE
    ELSE IF version \notin AlignmentTableVersions THEN FALSE
    ELSE LET positions == ALIGNMENT_PATTERN_POSITIONS(version) IN
         \E i \in 1..Len(positions), j \in 1..Len(positions) :
             LET centerX == positions[i]
                 centerY == positions[j]
             IN  /\ ~(centerX < 9 /\ centerY < 9)
                 /\ Abs(x - centerX) <= 2
                 /\ Abs(y - centerY) <= 2

isInFormatInfo(x, y, size) ==
    \/ (y = 8 /\ x <= 8)
    \/ (x = 8 /\ y <= 8)
    \/ (y = 8 /\ x >= size - 8)
    \/ (x = 8 /\ y >= size - 7)

isInVersionInfo(x, y, size, version) ==
    IF version < 7 THEN FALSE
    ELSE \/ (x <= 5 /\ y >= size - 11 /\ y <= size - 9)
         \/ (y <= 5 /\ x >= size - 11 /\ x <= size - 9)

\* isFunctionPattern(x, y, qr): reads qr.size and qr.version only.
isFunctionPattern(x, y, qr) ==
    \/ isInFinderPattern(x, y, qr.size)
    \/ isInTimingPattern(x, y)
    \/ isInAlignmentPattern(x, y, qr.version)
    \/ isInFormatInfo(x, y, qr.size)
    \/ isInVersionInfo(x, y, qr.size, qr.version)

\* The cells of a matrix in the order of the sweep
\*   for (y = 0; y < size; y++) for (x = 0; x < size; x++)
SweepOrder(size) == [k \in 1..(size * size) |-> [x |-> (k - 1) % size, y |-> (k - 1) \div size]]

\* identifyFlippableModules without its two tests: every swept cell is kept.
identifyFlippableModulesUnfiltered(qr) ==
    LET kept == SweepOrder(qr.size)
    IN  [i \in 1..Len(kept) |->
            [x |-> qr.modules[kept[i].y][kept[i].x].x,
             y |-> qr.modules[kept[i].y][kept[i].x].y,
             index |-> i - 1]]

\* identifyFlippableModules(qr): a swept cell is kept unless isFunctionPattern
\* holds of it or its module's type is not DATA_CODEWORD; the entry pushed is
\* {x: module.x, y: module.y, index: flippable.length}.
identifyFlippableModules(qr) ==
    LET kept == SelectSeq(SweepOrder(qr.size),
                          LAMBDA c : /\ ~isFunctionPattern(c.x, c.y, qr)
                                     /\ qr.modules[c.y][c.x].type = DATA_CODEWORD)
    IN  [i \in 1..Len(kept) |->
            [x |-> qr.modules[kept[i].y][kept[i].x].x,
             y |-> qr.modules[kept[i].y][kept[i].x].y,
             index |-> i - 1]]

\* Fractions of the capacity model.  safetyMargin is a double in the code; it
\* is held here in thousandths, and BIT_DENSITY = 0.42 in hundredths.  For
\* the margins of SafetyMargins and every module count a QR code can have
\* (at most 177 * 177), Math.floor of the double product and quotient equals
\* the integer quotient taken here.
MARGIN_SCALE == 1000
BIT_DENSITY_PERCENT == 42
DEFAULT_SAFETY_MARGIN == 70    \* safetyMargin = 0.07

\* calculateMaxCapacity with the margin read as the share of modules kept
\* unflipped.
calculateMaxCapacityReserved(totalFlippableModules, ecLevel, safetyMargin) ==
    LET targetFlips == (totalFlippableModules * (MARGIN_SCALE - safetyMargin)) \div MARGIN_SCALE
        totalBitsCapacity == (targetFlips * 100) \div BIT_DENSITY_PERCENT
    IN  IF totalBitsCapacity > 0 THEN totalBitsCapacity ELSE 0

\* calculateMaxCapacity(totalFlippableModules, ecLevel, safetyMargin):
\*   targetFlips = Math.floor(totalFlippableModules * safetyMargin)
\*   totalBitsCapacity = Math.floor(targetFlips / BIT_DENSITY)
\*   return Math.max(0, totalBitsCapacity)
\* ecLevel is not read on the way to the result.
calculateMaxCapacity(totalFlippableModules, ecLevel, safetyMargin) ==
    LET targetFlips == (totalFlippableModules * safetyMargin) \div MARGIN_SCALE
        totalBitsCapacity == (targetFlips * 100) \div BIT_DENSITY_PERCENT
    IN  IF totalBitsCapacity > 0 THEN totalBitsCapacity ELSE 0

\* The tail of getCapacity with the overhead not subtracted.
CapacityBytesNoOverhead(totalBits) == totalBits \div 8

\* The tail of getCapacity: Math.max(0, Math.floor((totalBits - 32) / 8))
CapacityBytes(totalBits) ==
    IF (totalBits - OVERHEAD_BITS) \div 8 > 0 THEN (totalBits - OVERHEAD_BITS) \div 8 ELSE 0

-----------------------------------------------------------------------------
(* Matrix conversions of core/QRStegoEncoder.ts and core/QRStego.ts        *)

\* unmapECLevel(ecc): the engine's level as an ECLevel (same ordinals).
unmapECLevel(ecc) == IF ecc \in {ECLevel_L, ECLevel_M, ECLevel_Q} THEN ecc ELSE ECLevel_H

\* determineModuleType that trusts the engine's map alone: every module the
\* engine marks a function module gets the type FINDER_PATTERN.
determineModuleTypeEngineOnly(x, y, qr) ==
    IF EngineIsFunction(qr, x, y) THEN FINDER_PATTERN ELSE DATA_CODEWORD

\* determineModuleType(x, y, qr) of the encoder
determineModuleType(x, y, qr) ==
    IF EngineIsFunction(qr, x, y)
         /\ isFunctionPattern(x, y, [size |-> qr.size, version |-> qr.version])
    THEN FINDER_PATTERN
    ELSE DATA_CODEWORD

\* convertToQRMatrix(qr) of the encoder
convertToQRMatrix(qr) ==
    [size |-> qr.size,
     modules |-> [y \in 0..(qr.size - 1) |-> [x \in 0..(qr.size - 1) |->
                    LET type == determineModuleType(x, y, qr) IN
                    [x |-> x, y |-> y, value |-> EngineGetModule(qr, x, y),
                     type |-> type, isFlippable |-> type = DATA_CODEWORD]]],
     version |-> qr.version,
     errorCorrectionLevel |-> unmapECLevel(qr.errorCorrectionLevel),
     maskPattern |-> qr.mask]

\* convertToFullQRMatrix(qr) of the decoder
convertToFullQRMatrix(qr) ==
    [size |-> qr.size,
     modules |-> [y \in 0..(qr.size - 1) |-> [x \in 0..(qr.size - 1) |->
                    LET isFunctionMod ==
                            isFunctionPattern(x, y, [size |-> qr.size, version |-> qr.version])
                    IN  [x |-> x, y |-> y, value |-> EngineGetModule(qr, x, y),
                         type |-> IF isFunctionMod THEN FINDER_PATTERN ELSE DATA_CODEWORD,
                         isFlippable |-> ~isFunctionMod]]],
     version |-> qr.version,
     errorCorrectionLevel |-> ECLevel_H,
     maskPattern |-> qr.mask]

-----------------------------------------------------------------------------
(* SpecQR: the structural analyzer run on the QR code of every version,    *)
(* through the encoder's conversion and through the decoder's.             *)

\* The codes the engine may hand over: one per version.
EngineCodes ==
    {EngineCode(v, ECLevel_H, 0, 1) : v \in MIN_VERSION..MAX_VERSION}

QrInit ==
    /\ qrcode \in EngineCodes
    /\ converter \in {"encoder", "decoder"}
    /\ flippable = None
    /\ FrameIdle /\ DistIdle /\ CapIdle /\ CodecIdle /\ CrcIdle /\ PrimeIdle

EncoderIdentify ==
    /\ flippable = None /\ converter = "encoder"
    /\ flippable' = Return(identifyFlippableModules(convertToQRMatrix(qrcode)))
    /\ UNCHANGED <<qrcode, converter>>
    /\ UNCHANGED <<frameVars, distVars, capVars, codecVars, crcVars, primeVars>>

DecoderIdentify ==
    /\ flippable = None /\ converter = "decoder"
    /\ flippable' = Return(identifyFlippableModules(convertToFullQRMatrix(qrcode)))
    /\ UNCHANGED <<qrcode, converter>>
    /\ UNCHANGED <<frameVars, distVars, capVars, codecVars, crcVars, primeVars>>

QrNext == EncoderIdentify \/ DecoderIdentify

SpecQR == QrInit /\ [][QrNext]_vars

\* C8: function-pattern safety.  For every version in 1..40 (side
\* 17 + 4 * version), no coordinate of the flippable list satisfies
\* isFunctionPattern.
C8_FunctionPatternSafety ==
    flippable # None =>
        /\ qrcode.size = 17 + 4 * qrcode.version
        /\ \A i \in 1..Len(flippable.value) :
               ~isFunctionPattern(flippable.value[i].x, flippable.value[i].y, qrcode)

\* C8 witness: a non-empty flippable list of the largest version.
C8_Witness ==
    /\ flippable # None /\ converter = "encoder"
    /\ qrcode.version = MAX_VERSION
    /\ Len(flippable.value) > 0
    /\ ~isFunctionPattern(flippable.value[1].x, flippable.value[1].y, qrcode)

\* C9: the alignment table covers versions 2..40.  For every version from 2
\* up, every module within Chebyshev distance 2 of an alignment centre the
\* engine draws is reported a function pattern and is never in the flippable
\* list.
C9_AlignmentTableCoverage ==
    (flippable # None /\ qrcode.version >= 2) =>
        \A c \in qrcode.alignmentCenters : \A dx \in -2..2, dy \in -2..2 :
            /\ isFunctionPattern(c[1] + dx, c[2] + dy, qrcode)
            /\ \A i \in 1..Len(flippable.value) :
                   ~(flippable.value[i].x = c[1] + dx /\ flippable.value[i].y = c[2] + dy)

-----------------------------------------------------------------------------
(* SpecCap: getCapacity asked of one primary message under several safety  *)
(* margins.  The primary enters through the number of flippable modules of *)
(* its QR code, the one thing getCapacity reads of it.                     *)

MaxFlippable == 400

\* Safety margins in thousandths: 0.001, 0.01, 0.05, 0.07 (the default), 0.1,
\* 0.25, 0.5, 0.75 and 1.
SafetyMargins == {1, 10, 50, DEFAULT_SAFETY_MARGIN, 100, 250, 500, 750, 1000}

CapInit ==
    /\ flippableCount \in 0..MaxFlippable
    /\ capLog = {}
    /\ FrameIdle /\ DistIdle /\ QrIdle /\ CodecIdle /\ CrcIdle /\ PrimeIdle

\* getCapacity(primary, safetyMargin) from calculateMaxCapacity on.
AskCapacity ==
    /\ Cardinality(capLog) < 2
    /\ \E sm \in SafetyMargins :
           /\ \A a \in capLog : a.safetyMargin # sm
           /\ capLog' = capLog \cup
                  {[safetyMargin |-> sm,
                    maxBits |-> calculateMaxCapacity(flippableCount, ECLevel_H, sm),
                    capacity |-> CapacityBytes(
                                     calculateMaxCapacity(flippableCount, ECLevel_H, sm))]}
    /\ UNCHANGED flippableCount
    /\ UNCHANGED <<frameVars, distVars, qrVars, codecVars, crcVars, primeVars>>

CapNext == AskCapacity

SpecCap == CapInit /\ [][CapNext]_vars

\* C10: monotone capacity.  For one primary message and safety margins
\* sm1 <= sm2, Capacity(primary, sm1) <= Capacity(primary, sm2), where
\* Capacity = max(0, floor((floor(floor(F * sm) / 0.42) - 32) / 8)).
C10_MonotoneCapacity ==
    \A a \in capLog, b \in capLog :
        /\ a.safetyMargin <= b.safetyMargin => a.capacity <= b.capacity
        /\ a.capacity =
               LET bytes == ((((flippableCount * a.safetyMargin) \div 1000) * 100) \div 42 - 32) \div 8
               IN  IF bytes > 0 THEN bytes ELSE 0

\* C10 witness: two margins asked, the larger giving strictly more capacity.
C10_Witness ==
    \E a \in capLog, b \in capLog :
        /\ a.safetyMargin < b.safetyMargin
        /\ 0 < a.capacity /\ a.capacity < b.capacity

-----------------------------------------------------------------------------
(* QrCode.encodeText of the engine.  A text is a sequence of code units;   *)
(* the texts used are lower-case ASCII, which the engine puts in byte mode. *)

\* Byte-mode capacity of versions 1..4 at levels L, M, Q, H (ISO/IEC 18004,
\* table 7).
EngineByteCapacity ==
    <<<<17, 14, 11, 7>>, <<32, 26, 20, 14>>, <<53, 42, 32, 24>>, <<78, 62, 46, 34>>>>

\* encodeText(text, ecl): the smallest version that holds the text at the
\* requested level, then the level raised while the text still fits
\* (boostEcl).  Mask and module colours depend on the text.
EngineEncodeText(text, ecl) ==
    LET bytes == Len(TextEncode(text))
        version == CHOOSE v \in 1..Len(EngineByteCapacity) :
                       /\ EngineByteCapacity[v][ecl + 1] >= bytes
                       /\ \A w \in 1..(v - 1) : EngineByteCapacity[w][ecl + 1] < bytes
        boosted == CHOOSE e \in ecl..ECLevel_H :
                       /\ EngineByteCapacity[version][e + 1] >= bytes
                       /\ \A f \in (e + 1)..ECLevel_H :
                              EngineByteCapacity[version][f + 1] < bytes
    IN  EngineCode(version, boosted, bytes % 8, bytes)

-----------------------------------------------------------------------------
(* core/QRStegoEncoder.ts                                                  *)

NoFlippableModules   == "No flippable modules found - QR code too small"
InsufficientCapacity == "Insufficient capacity for hidden message"

\* mapECLevel(ecLevel): mapping[ecLevel] || QrCode.Ecc.HIGH
mapECLevel(ecLevel) ==
    IF ecLevel \in {ECLevel_L, ECLevel_M, ECLevel_Q, ECLevel_H} THEN ecLevel ELSE ECLevel_H

\* createFlipMap(secondaryBits, flippableModules): encoding is a Map, a later
\* set() of a module index replaces an earlier one.
createFlipMap(secondaryBits, flippableModules) ==
    LET indices == generateDistributionPattern(Len(secondaryBits), Len(flippableModules))
    IN  IF ~indices.ok THEN indices
        ELSE Return(
            [positions |-> flippableModules,
             encoding |->
                 [m \in {indices.value[i] : i \in 1..Len(secondaryBits)} |->
                     LET last == CHOOSE i \in 1..Len(secondaryBits) :
                                     /\ indices.value[i] = m
                                     /\ \A j \in (i + 1)..Len(secondaryBits) :
                                            indices.value[j] # m
                     IN  secondaryBits[last]]])

\* applyFlips without "if (!shouldFlip) continue": every module of the map
\* is inverted, whatever its bit.
applyFlipsEveryEntry(qr, flipMap) ==
    LET flips == {m \in DOMAIN flipMap.encoding :
                     ~isFunctionPattern(flipMap.positions[m + 1].x,
                                        flipMap.positions[m + 1].y, qr)}
        cells == {<<flipMap.positions[m + 1].x, flipMap.positions[m + 1].y>> : m \in flips}
    IN  [size |-> qr.size,
         modules |-> [y \in 0..(qr.size - 1) |-> [x \in 0..(qr.size - 1) |->
                        IF <<x, y>> \in cells
                        THEN [qr.modules[y][x] EXCEPT !.value = ~@]
                        ELSE qr.modules[y][x]]],
         version |-> qr.version,
         errorCorrectionLevel |-> qr.errorCorrectionLevel,
         maskPattern |-> qr.maskPattern,
         flippedModuleCount |-> Cardinality(flips)]

\* applyFlips(qr, flipMap): a copy of qr in which the module of every map
\* entry whose bit is set is inverted, unless isFunctionPattern holds there;
\* flippedModuleCount is the number of inversions.
applyFlips(qr, flipMap) ==
    LET flips == {m \in DOMAIN flipMap.encoding :
                     /\ flipMap.encoding[m]
                     /\ ~isFunctionPattern(flipMap.positions[m + 1].x,
                                           flipMap.positions[m + 1].y, qr)}
        cells == {<<flipMap.positions[m + 1].x, flipMap.positions[m + 1].y>> : m \in flips}
    IN  [size |-> qr.size,
         modules |-> [y \in 0..(qr.size - 1) |-> [x \in 0..(qr.size - 1) |->
                        IF <<x, y>> \in cells
                        THEN [qr.modules[y][x] EXCEPT !.value = ~@]
                        ELSE qr.modules[y][x]]],
         version |-> qr.version,
         errorCorrectionLevel |-> qr.errorCorrectionLevel,
         maskPattern |-> qr.maskPattern,
         flippedModuleCount |-> Cardinality(flips)]

\* The cells whose module object is shared by qr and the stegoQR of
\* applyFlips: none, stegoQR.modules being built by
\*   qr.modules.map(row => row.map(module => ({ ...module })))
SharedModules(qr) == {}

\* The argument qr as applyFlips leaves it: a write to a module of stegoQR
\* shows in qr where the module object is shared.
applyFlipsArgument(qr, flipMap) ==
    [qr EXCEPT !.modules =
        [y \in 0..(qr.size - 1) |-> [x \in 0..(qr.size - 1) |->
            IF <<x, y>> \in SharedModules(qr)
            THEN applyFlips(qr, flipMap).modules[y][x]
            ELSE qr.modules[y][x]]]]

\* Step 5 of encode with the test secondary.length > 0 left out.
FrameSecondaryAlways(secondary_, maxBits_) ==
    encodeSecondaryMessage(secondary_, maxBits_)

\* Step 5 of encode:
\*   let secondaryBits = [];
\*   if (secondary.length > 0) secondaryBits = encodeSecondaryMessage(secondary, maxBits);
FrameSecondary(secondary_, maxBits_) ==
    IF Len(secondary_) > 0 THEN encodeSecondaryMessage(secondary_, maxBits_)
    ELSE Return(<<>>)

\* encode(primary, secondary, options); options carries ecLevel and
\* safetyMargin, the defaults being ECLevel.H and 0.07.
encode(primary_, secondary_, options_) ==
    LET baseQR == EngineEncodeText(primary_, mapECLevel(options_.ecLevel))
        qrMatrix == convertToQRMatrix(baseQR)
        flippableModules == identifyFlippableModules(qrMatrix)
        maxBits_ == calculateMaxCapacity(Len(flippableModules), options_.ecLevel,
                                         options_.safetyMargin)
    IN  IF Len(flippableModules) = 0 THEN Throw(NoFlippableModules)
        ELSE IF maxBits_ <= 0 THEN Throw(InsufficientCapacity)
        ELSE LET secondaryBits == FrameSecondary(secondary_, maxBits_) IN
             IF ~secondaryBits.ok THEN secondaryBits
             ELSE LET flipMap == createFlipMap(secondaryBits.value, flippableModules) IN
                  IF ~flipMap.ok THEN flipMap
                  ELSE Return(applyFlips(qrMatrix, flipMap.value))

\* getCapacity(primary, safetyMargin)
getCapacity(primary_, safetyMargin) ==
    LET baseQR == EngineEncodeText(primary_, ECLevel_H)
        flippableModules == identifyFlippableModules(convertToQRMatrix(baseQR))
    IN  CapacityBytes(calculateMaxCapacity(Len(flippableModules), ECLevel_H, safetyMargin))

\* validateCapacity(primary, secondary, safetyMargin)
validateCapacity(primary_, secondary_, safetyMargin) ==
    Len(TextEncode(secondary_)) <= getCapacity(primary_, safetyMargin)

\* Renderer.getModules(matrix): the module values as a boolean matrix.
getModules(matrix) ==
    [y \in 0..(matrix.size - 1) |-> [x \in 0..(matrix.size - 1) |-> matrix.modules[y][x].value]]

\* QRStego.encode(primary, secondary, options): the matrix and its metadata.
\* capacityUsed = (flippedCount / (size * size)) * 100 is kept as a fraction;
\* the timestamp is left out.
QRStego_encode(primary_, secondary_, options_) ==
    LET matrix == encode(primary_, secondary_, options_) IN
    IF ~matrix.ok THEN matrix
    ELSE Return(
        [matrix |-> matrix.value,
         metadata |->
             [flippedModuleCount |-> matrix.value.flippedModuleCount,
              ecLevelUsed |-> matrix.value.errorCorrectionLevel,
              capacityUsed |-> [num |-> matrix.value.flippedModuleCount * 100,
                                den |-> matrix.value.size * matrix.value.size]]])

-----------------------------------------------------------------------------
(* core/QRStego.ts: the decoder                                            *)

SizeMismatch == "Matrix size mismatch"

\* qrToModuleMatrix(qr)
qrToModuleMatrix(qr) ==
    [y \in 0..(qr.size - 1) |-> [x \in 0..(qr.size - 1) |-> EngineGetModule(qr, x, y)]]

\* compareMatrices with the test of the two lengths left out: the loop reads
\* scanned[pos.y][pos.x], which raises a TypeError for a row that does not
\* exist and yields undefined for a column that does not exist.
compareMatricesUnchecked(scanned_, reference, flippableModules) ==
    IF \E i \in 1..Len(flippableModules) : flippableModules[i].y \notin DOMAIN scanned_
    THEN Throw("Cannot read properties of undefined")
    ELSE Return({i \in 0..(Len(flippableModules) - 1) :
                    \/ flippableModules[i + 1].x \notin DOMAIN scanned_[flippableModules[i + 1].y]
                    \/ scanned_[flippableModules[i + 1].y][flippableModules[i + 1].x]
                          # reference[flippableModules[i + 1].y][flippableModules[i + 1].x]})

\* compareMatrices that also refuses a scan in which a module outside the
\* flippable list differs from the reference.
compareMatricesGuarded(scanned_, reference, flippableModules) ==
    IF Cardinality(DOMAIN scanned_) # Cardinality(DOMAIN reference)
    THEN Throw(SizeMismatch)
    ELSE IF \E y \in DOMAIN reference : \E x \in DOMAIN reference[y] :
                /\ scanned_[y][x] # reference[y][x]
                /\ \A i \in 1..Len(flippableModules) :
                       ~(flippableModules[i].x = x /\ flippableModules[i].y = y)
    THEN Throw("Function pattern differs")
    ELSE Return({i \in 0..(Len(flippableModules) - 1) :
                    scanned_[flippableModules[i + 1].y][flippableModules[i + 1].x]
                        # reference[flippableModules[i + 1].y][flippableModules[i + 1].x]})

\* compareMatrices(scanned, reference, flippableModules): the set of list
\* indices at which the two matrices differ.
compareMatrices(scanned_, reference, flippableModules) ==
    IF Cardinality(DOMAIN scanned_) # Cardinality(DOMAIN reference)
    THEN Throw(SizeMismatch)
    ELSE Return({i \in 0..(Len(flippableModules) - 1) :
                    scanned_[flippableModules[i + 1].y][flippableModules[i + 1].x]
                        # reference[flippableModules[i + 1].y][flippableModules[i + 1].x]})

\* The walk of the decoder's two loops,
\*   moduleIndex = current % totalModules; current = (current + step) % totalModules
\* from current = 0: in turn i (from 0) current is (i * step) % totalModules.
WalkIndex(i, step, totalModules_) == ((i * step) % totalModules_) % totalModules_

\* extractBitsFromFlips(flipPositions, flippableModules)
extractBitsFromFlips(flipPositions, flippableModules) ==
    LET totalModules_ == Len(flippableModules)
        step == findLargePrime(totalModules_)
        lengthBits == [i \in 1..16 |->
                          WalkIndex(i - 1, step, totalModules_) \in flipPositions]
        messageLength == BitsToInt(lengthBits, 0, 16)
        totalBits == 16 + (messageLength * 8) + 16
    IN  [i \in 1..totalBits |-> WalkIndex(i - 1, step, totalModules_) \in flipPositions]

\* decodeFromMatrix(scannedMatrix, primaryMessage); capacityUsed =
\* (flipPositions.size / flippableModules.length) * 100 is kept as a fraction.
decodeFromMatrix(scannedMatrix, primaryMessage) ==
    LET referenceQR == EngineEncodeText(primaryMessage, ECLevel_H)
        referenceMatrix == qrToModuleMatrix(referenceQR)
        flippableModules == identifyFlippableModules(convertToFullQRMatrix(referenceQR))
        flipPositions == compareMatrices(scannedMatrix, referenceMatrix, flippableModules)
    IN  IF ~flipPositions.ok THEN flipPositions
        ELSE IF Cardinality(flipPositions.value) = 0
        THEN Return([primaryMessage |-> primaryMessage,
                     secondaryMessage |-> <<>>,
                     metadata |-> [flippedModuleCount |-> 0,
                                   ecLevelUsed |-> ECLevel_H,
                                   capacityUsed |-> [num |-> 0, den |-> 1]]])
        ELSE LET secondaryMessage ==
                     decodeSecondaryMessage(
                         extractBitsFromFlips(flipPositions.value, flippableModules))
             IN  IF ~secondaryMessage.ok THEN secondaryMessage
                 ELSE Return([primaryMessage |-> primaryMessage,
                              secondaryMessage |-> secondaryMessage.value,
                              metadata |->
                                  [flippedModuleCount |-> Cardinality(flipPositions.value),
                                   ecLevelUsed |-> ECLevel_H,
                                   capacityUsed |->
                                       [num |-> Cardinality(flipPositions.value) * 100,
                                        den |-> Len(flippableModules)]]])

NoQRCodeFound == "No QR code found in image"

DEFAULT_MAX_MESSAGE_SIZE == 100

\* An image is held as what jsQR makes of it (whether it finds a code, and
\* the text it reads) and the module matrix drawn in it; jsQR's corner
\* locations are taken to be exact.

\* extractModulesFromImage(imageData, location, qrSize): qrSize * qrSize
\* samples, one at the centre ((module + 0.5) * side / qrSize) of each
\* module of the expected grid.
extractModulesFromImage(imageData, qrSize) ==
    LET side == Cardinality(DOMAIN imageData.modules) IN
    [moduleY \in 0..(qrSize - 1) |-> [moduleX \in 0..(qrSize - 1) |->
        imageData.modules[((2 * moduleY + 1) * side) \div (2 * qrSize)]
                         [((2 * moduleX + 1) * side) \div (2 * qrSize)]]]

\* const { strictChecksum = true, maxMessageSize = 100 } = options
strictChecksumOf(options_) ==
    IF "strictChecksum" \in DOMAIN options_ THEN options_.strictChecksum ELSE TRUE

\* decode whose catch block never rethrows.
decodeSuppressing(imageData, options_) ==
    IF ~imageData.found THEN Throw(NoQRCodeFound)
    ELSE
    LET primaryMessage == imageData.data
        referenceQR == EngineEncodeText(primaryMessage, ECLevel_H)
        scannedMatrix == extractModulesFromImage(imageData, referenceQR.size)
        referenceMatrix == qrToModuleMatrix(referenceQR)
        flippableModules == identifyFlippableModules(convertToFullQRMatrix(referenceQR))
        flipPositions == compareMatrices(scannedMatrix, referenceMatrix, flippableModules)
    IN  IF ~flipPositions.ok THEN flipPositions
        ELSE IF Cardinality(flipPositions.value) = 0
        THEN Return([primaryMessage |-> primaryMessage,
                     secondaryMessage |-> <<>>,
                     metadata |-> [flippedModuleCount |-> 0,
                                   ecLevelUsed |-> ECLevel_H,
                                   capacityUsed |-> [num |-> 0, den |-> 1]]])
        ELSE LET attempt == decodeSecondaryMessage(
                                extractBitsFromFlips(flipPositions.value, flippableModules))
             IN  IF FALSE THEN attempt
                 ELSE Return([primaryMessage |-> primaryMessage,
                              secondaryMessage |-> IF attempt.ok THEN attempt.value ELSE <<>>,
                              metadata |->
                                  [flippedModuleCount |-> Cardinality(flipPositions.value),
                                   ecLevelUsed |-> ECLevel_H,
                                   capacityUsed |->
                                       [num |-> Cardinality(flipPositions.value) * 100,
                                        den |-> Len(flippableModules)]]])

\* decode(imageData, options): options carries strictChecksum (default
\* true) and maxMessageSize (default 100); maxMessageSize is not read after
\* the destructuring.
decode(imageData, options_) ==
    IF ~imageData.found THEN Throw(NoQRCodeFound)
    ELSE
    LET primaryMessage == imageData.data
        referenceQR == EngineEncodeText(primaryMessage, ECLevel_H)
        scannedMatrix == extractModulesFromImage(imageData, referenceQR.size)
        referenceMatrix == qrToModuleMatrix(referenceQR)
        flippableModules == identifyFlippableModules(convertToFullQRMatrix(referenceQR))
        flipPositions == compareMatrices(scannedMatrix, referenceMatrix, flippableModules)
    IN  IF ~flipPositions.ok THEN flipPositions
        ELSE IF Cardinality(flipPositions.value) = 0
        THEN Return([primaryMessage |-> primaryMessage,
                     secondaryMessage |-> <<>>,
                     metadata |-> [flippedModuleCount |-> 0,
                                   ecLevelUsed |-> ECLevel_H,
                                   capacityUsed |-> [num |-> 0, den |-> 1]]])
        ELSE LET attempt == decodeSecondaryMessage(
                                extractBitsFromFlips(flipPositions.value, flippableModules))
             IN  IF ~attempt.ok /\ strictChecksumOf(options_) THEN attempt
                 ELSE Return([primaryMessage |-> primaryMessage,
                              secondaryMessage |-> IF attempt.ok THEN attempt.value ELSE <<>>,
                              metadata |->
                                  [flippedModuleCount |-> Cardinality(flipPositions.value),
                                   ecLevelUsed |-> ECLevel_H,
                                   capacityUsed |->
                                       [num |-> Cardinality(flipPositions.value) * 100,
                                        den |-> Len(flippableModules)]]])

\* The module that carries frame bit i of a code of the given primary: the
\* position the decoder's walk reaches after i steps.
CarrierOfBit(primaryMessage, i) ==
    LET referenceQR == EngineEncodeText(primaryMessage, ECLevel_H)
        flippableModules == identifyFlippableModules(convertToFullQRMatrix(referenceQR))
    IN  flippableModules[WalkIndex(i, findLargePrime(Len(flippableModules)),
                                   Len(flippableModules)) + 1]

-----------------------------------------------------------------------------
(* Spec: the public API of QRStego.  A primary and a secondary message are *)
(* chosen; validateCapacity and encode are called on them, the modules of  *)
(* the encoded matrix are read with getModules and handed, with the same   *)
(* primary, to decodeFromMatrix.                                           *)

\* Primary messages: lower-case texts of 5, 12 and 20 characters, which the
\* engine encodes at level H as versions 1, 2 and 3.
PrimaryLengths == {5, 12, 20}
Primaries == {[i \in 1..n |-> 97 + (i % 26)] : n \in PrimaryLengths}

\* Secondary messages: strings of "a" (1 byte) and U+FEFF (3 bytes).
SecondaryAlphabet == {97, ByteOrderMark}
MaxSecondaryLen == 2
Secondaries == UNION {[1..n -> SecondaryAlphabet] : n \in 0..MaxSecondaryLen}

DefaultOptions == [ecLevel |-> ECLevel_H, safetyMargin |-> DEFAULT_SAFETY_MARGIN]

\* The defaults, a lower EC level, the two ends of the margin's range, and
\* the margin 0.01, which leaves a few bits of capacity.
OptionSets ==
    {DefaultOptions,
     [ecLevel |-> ECLevel_L, safetyMargin |-> DEFAULT_SAFETY_MARGIN],
     [ecLevel |-> ECLevel_H, safetyMargin |-> 1],
     [ecLevel |-> ECLevel_H, safetyMargin |-> 10],
     [ecLevel |-> ECLevel_H, safetyMargin |-> MARGIN_SCALE]}

Init ==
    /\ primary \in Primaries
    /\ secondary \in Secondaries
    /\ options \in OptionSets
    /\ stego = None /\ valid = None /\ scanned = None /\ payload = None
    /\ tampered = -1 /\ decodeOptions = None /\ imagePayload = None
    /\ rescanned = None /\ repayload = None
    /\ FrameIdle /\ DistIdle /\ QrIdle /\ CapIdle /\ CrcIdle /\ PrimeIdle

\* QRStego.validateCapacity(primary, secondary, options.safetyMargin), asked
\* on the encoding side, before or after encode.
ValidateCapacity ==
    /\ valid = None /\ scanned = None
    /\ valid' = Return(validateCapacity(primary, secondary, options.safetyMargin))
    /\ UNCHANGED <<primary, secondary, options, stego, scanned, payload, tampered,
                   decodeOptions, imagePayload>>
    /\ UNCHANGED <<rescanned, repayload>>
    /\ UNCHANGED <<frameVars, distVars, qrVars, capVars, crcVars, primeVars>>

\* QRStego.encode(primary, secondary, options)
Encode ==
    /\ stego = None
    /\ stego' = QRStego_encode(primary, secondary, options)
    /\ UNCHANGED <<primary, secondary, options, valid, scanned, payload, tampered,
                   decodeOptions, imagePayload>>
    /\ UNCHANGED <<rescanned, repayload>>
    /\ UNCHANGED <<frameVars, distVars, qrVars, capVars, crcVars, primeVars>>

\* result.getModules()
GetModules ==
    /\ stego # None /\ stego.ok
    /\ scanned = None
    /\ scanned' = getModules(stego.value.matrix)
    /\ UNCHANGED <<primary, secondary, options, stego, valid, payload, tampered,
                   decodeOptions, imagePayload>>
    /\ UNCHANGED <<rescanned, repayload>>
    /\ UNCHANGED <<frameVars, distVars, qrVars, capVars, crcVars, primeVars>>

\* The frame bits whose module a scan may get wrong: a bit of the length
\* field (weight 32) and the first bit of the payload.
TamperedBits == {10, 16}

\* One module of the scanned matrix is read inverted.
Tamper ==
    /\ scanned # None /\ tampered = -1
    /\ payload = None /\ imagePayload = None
    /\ \E i \in TamperedBits :
           LET cell == CarrierOfBit(primary, i) IN
           /\ cell.y \in DOMAIN scanned /\ cell.x \in DOMAIN scanned[cell.y]
           /\ tampered' = i
           /\ scanned' = [scanned EXCEPT ![cell.y][cell.x] = ~@]
    /\ UNCHANGED <<primary, secondary, options, stego, valid, payload,
                   decodeOptions, imagePayload>>
    /\ UNCHANGED <<rescanned, repayload>>
    /\ UNCHANGED <<frameVars, distVars, qrVars, capVars, crcVars, primeVars>>

\* QRStego.decodeFromMatrix(modules, primary)
Decode ==
    /\ scanned # None
    /\ payload = None /\ imagePayload = None
    /\ payload' = decodeFromMatrix(scanned, primary)
    /\ UNCHANGED <<primary, secondary, options, stego, valid, scanned, tampered,
                   decodeOptions, imagePayload>>
    /\ UNCHANGED <<rescanned, repayload>>
    /\ UNCHANGED <<frameVars, distVars, qrVars, capVars, crcVars, primeVars>>

\* The options of decode: none given, and strictChecksum given as true and
\* as false.
DecodeOptionSets ==
    {[maxMessageSize |-> DEFAULT_MAX_MESSAGE_SIZE],
     [strictChecksum |-> TRUE, maxMessageSize |-> DEFAULT_MAX_MESSAGE_SIZE],
     [strictChecksum |-> FALSE, maxMessageSize |-> DEFAULT_MAX_MESSAGE_SIZE]}

\* QRStego.decode(imageData, options) on an image of the scanned matrix, in
\* which jsQR finds the primary message or finds no code.  The images taken
\* are those of a code of the side the primary has at level H.
DecodeImage ==
    /\ scanned # None
    /\ Cardinality(DOMAIN scanned) = EngineEncodeText(primary, ECLevel_H).size
    /\ payload = None /\ imagePayload = None
    /\ \E given \in DecodeOptionSets, found \in BOOLEAN :
           /\ decodeOptions' = given
           /\ imagePayload' = decode([found |-> found, data |-> primary,
                                      modules |-> scanned], decodeOptions')
    /\ UNCHANGED <<primary, secondary, options, stego, valid, scanned, payload, tampered>>
    /\ UNCHANGED <<rescanned, repayload>>
    /\ UNCHANGED <<frameVars, distVars, qrVars, capVars, crcVars, primeVars>>

\* The module the decoder's walk would reach in the turn after its last
\* (turn 32 + 8L, L being the length read from the scanned matrix), or no
\* module when the walk has been round the whole list.
FirstUnreadCarrier(scannedMatrix, primaryMessage) ==
    LET referenceQR == EngineEncodeText(primaryMessage, ECLevel_H)
        flippableModules == identifyFlippableModules(convertToFullQRMatrix(referenceQR))
        flipPositions == compareMatrices(scannedMatrix, qrToModuleMatrix(referenceQR),
                                         flippableModules).value
        totalBits == Len(extractBitsFromFlips(flipPositions, flippableModules))
    IN  IF totalBits >= Len(flippableModules) THEN {}
        ELSE {flippableModules[WalkIndex(totalBits, findLargePrime(Len(flippableModules)),
                                         Len(flippableModules)) + 1]}

\* Second scans of the code of scannedMatrix that read other modules than
\* those the walk visits: a corner of a finder pattern read inverted, alone
\* or together with the first flippable module after the walk's end.
OtherScans(scannedMatrix, primaryMessage) ==
    LET corner == [scannedMatrix EXCEPT ![0][0] = ~@]
    IN  {corner} \cup {[corner EXCEPT ![c.y][c.x] = ~@] :
                          c \in FirstUnreadCarrier(scannedMatrix, primaryMessage)}

\* QRStego.decodeFromMatrix(modules, primary) on a second scan of the code,
\* after the first was decoded.
DecodeAgain ==
    /\ scanned # None /\ payload # None /\ payload # Throw(SizeMismatch)
    /\ repayload = None
    /\ \E other \in OtherScans(scanned, primary) :
           /\ rescanned' = other
           /\ repayload' = decodeFromMatrix(other, primary)
    /\ UNCHANGED <<primary, secondary, options, stego, valid, scanned, payload, tampered,
                   decodeOptions, imagePayload>>
    /\ UNCHANGED <<frameVars, distVars, qrVars, capVars, crcVars, primeVars>>

Next ==
    \/ ValidateCapacity \/ Encode \/ GetModules \/ Tamper \/ Decode \/ DecodeImage
    \/ DecodeAgain

Spec == Init /\ [][Next]_vars

\* C1: round-trip identity.  Under the default options, for every primary
\* and every secondary whose UTF-8 length is at most Capacity(primary),
\* decodeFromMatrix on the modules of the encoded matrix, with the same
\* primary, returns that secondary and that primary.
C1_RoundTripIdentity ==
    (/\ payload # None /\ tampered = -1
     /\ options = DefaultOptions
     /\ Utf8Len(secondary) <= getCapacity(primary, DEFAULT_SAFETY_MARGIN))
        => /\ payload.ok
           /\ payload.value.secondaryMessage = secondary
           /\ payload.value.primaryMessage = primary

\* C5: capacity admission.  Under the default options, if validateCapacity
\* answers true then encode does not throw "Secondary message too large",
\* and if it answers false then encode does throw it.
C5_CapacityAdmission ==
    (valid # None /\ stego # None /\ options = DefaultOptions)
        => /\ valid.value => stego # Throw(PayloadTooLarge)
           /\ ~valid.value => stego = Throw(PayloadTooLarge)

\* C5 witness: a secondary one byte over the capacity was refused by both.
C5_Witness ==
    /\ valid # None /\ stego # None /\ options = DefaultOptions
    /\ ~valid.value /\ stego = Throw(PayloadTooLarge)
    /\ Utf8Len(secondary) = getCapacity(primary, DEFAULT_SAFETY_MARGIN) + 1

\* C7: empty secondary.  encode(primary, "") returns a matrix every module
\* of which equals the base QR code, with flippedModuleCount 0, and
\* decodeFromMatrix on it with the same primary returns "" with
\* flippedModuleCount 0.
C7_EmptySecondary ==
    (options = DefaultOptions /\ secondary = <<>>)
        => /\ stego # None =>
                /\ stego.ok
                /\ getModules(stego.value.matrix)
                       = qrToModuleMatrix(EngineEncodeText(primary, ECLevel_H))
                /\ stego.value.matrix.flippedModuleCount = 0
                /\ stego.value.metadata.flippedModuleCount = 0
           /\ (payload # None /\ tampered = -1) =>
                /\ payload.ok
                /\ payload.value.secondaryMessage = <<>>
                /\ payload.value.metadata.flippedModuleCount = 0

\* C7 witness: an empty secondary was encoded and decoded again.
C7_Witness ==
    /\ options = DefaultOptions /\ secondary = <<>>
    /\ stego # None /\ stego.ok /\ stego.value.metadata.flippedModuleCount = 0
    /\ tampered = -1
    /\ payload # None /\ payload.ok /\ payload.value.secondaryMessage = <<>>

\* Steps 1 to 4 of encode: the bit capacity M the call computes.
EncodeMaxBits(primary_, options_) ==
    LET baseQR == EngineEncodeText(primary_, mapECLevel(options_.ecLevel))
        flippableModules == identifyFlippableModules(convertToQRMatrix(baseQR))
    IN  calculateMaxCapacity(Len(flippableModules), options_.ecLevel, options_.safetyMargin)

\* C11: encode throws "Insufficient capacity for hidden message" whenever
\* the bit capacity M it computed is at most 32, for any secondary, the
\* empty one included.
C11_InsufficientCapacityUpTo32 ==
    (stego # None /\ EncodeMaxBits(primary, options) <= OVERHEAD_BITS)
        => stego = Throw(InsufficientCapacity)

\* The flippable list the decoders build for a primary message.
ReferenceFlippable(primaryMessage) ==
    identifyFlippableModules(
        convertToFullQRMatrix(EngineEncodeText(primaryMessage, ECLevel_H)))

\* The set of flipped list indices the decoders find in a scanned matrix of
\* the reference side.
ScannedFlips(scannedMatrix, primaryMessage) ==
    compareMatrices(scannedMatrix,
                    qrToModuleMatrix(EngineEncodeText(primaryMessage, ECLevel_H)),
                    ReferenceFlippable(primaryMessage)).value

\* The 16-bit length L the decoders read from the first 16 walk positions.
ScannedLength(scannedMatrix, primaryMessage) ==
    LET totalModules_ == Len(ReferenceFlippable(primaryMessage))
        flips == ScannedFlips(scannedMatrix, primaryMessage)
    IN  BitsToInt([i \in 1..16 |->
                       WalkIndex(i - 1, findLargePrime(totalModules_), totalModules_)
                           \in flips], 0, 16)

\* Whether a matrix has the side of the reference code of the primary.
HasReferenceSide(scannedMatrix, primaryMessage) ==
    Cardinality(DOMAIN scannedMatrix) = EngineEncodeText(primaryMessage, ECLevel_H).size

\* C12: in decodeFromMatrix and in decode, once the length L is read from
\* the first 16 walk positions, decoding fails with "Invalid message length"
\* if 32 + 8L > |F| or L > maxMessageSize (100).
C12_LengthBoundedByModules ==
    (/\ scanned # None /\ HasReferenceSide(scanned, primary)
     /\ ScannedFlips(scanned, primary) # {}
     /\ \/ OVERHEAD_BITS + 8 * ScannedLength(scanned, primary)
               > Len(ReferenceFlippable(primary))
        \/ ScannedLength(scanned, primary) > DEFAULT_MAX_MESSAGE_SIZE)
        => /\ payload # None => payload = Throw(BadLength)
           /\ (imagePayload # None /\ imagePayload # Throw(NoQRCodeFound))
                  => imagePayload = Throw(BadLength)

-----------------------------------------------------------------------------
(* Frames with an empty payload, under SpecFrame                           *)

\* The bits handed to decodeSecondaryMessage by DecodeFrame.
DecodedFrameBits == CorruptAt(frame.value, flippedBit)

\* C13: a 32-bit frame whose length field is 0 is accepted only if its CRC
\* field equals the checksum of the empty input (0xFFFF); with any other
\* CRC field decodeSecondaryMessage throws the checksum mismatch.
C13_EmptyFrameChecksum ==
    (/\ decoded # None
     /\ Len(DecodedFrameBits) = OVERHEAD_BITS
     /\ BitsToInt(DecodedFrameBits, 0, 16) = 0
     /\ BitsToInt(DecodedFrameBits, 16, 16) # calculateChecksum(<<>>))
        => decoded = Throw(ChecksumMismatch)

-----------------------------------------------------------------------------
(* Metadata of QRStego.encode and of the decoders, under Spec              *)

\* C14: the metadata's ecLevelUsed is always H, for every encode whatever
\* ecLevel option is passed, and for every decode.
C14_EcLevelUsedAlwaysH ==
    /\ (stego # None /\ stego.ok) => stego.value.metadata.ecLevelUsed = ECLevel_H
    /\ (payload # None /\ payload.ok) => payload.value.metadata.ecLevelUsed = ECLevel_H
    /\ (imagePayload # None /\ imagePayload.ok)
           => imagePayload.value.metadata.ecLevelUsed = ECLevel_H

\* The fraction capacityUsed of a metadata record is 100 * flippedModuleCount / side^2.
IsPctOfSide(metadata, side) ==
    metadata.capacityUsed.num * (side * side)
        = (100 * metadata.flippedModuleCount) * metadata.capacityUsed.den

\* C15: the metadata of encode and of the decoders reports capacityUsed =
\* 100 * flippedModuleCount / S^2, S being the side of the matrix; encode and
\* decodeFromMatrix report the same capacityUsed for the same stego matrix.
C15_CapacityUsedPct ==
    /\ (stego # None /\ stego.ok)
           => IsPctOfSide(stego.value.metadata, stego.value.matrix.size)
    /\ (payload # None /\ payload.ok)
           => IsPctOfSide(payload.value.metadata, Cardinality(DOMAIN scanned))
    /\ (imagePayload # None /\ imagePayload.ok)
           => IsPctOfSide(imagePayload.value.metadata, Cardinality(DOMAIN scanned))
    /\ (stego # None /\ stego.ok /\ payload # None /\ payload.ok /\ tampered = -1)
           => stego.value.metadata.capacityUsed.num * payload.value.metadata.capacityUsed.den
                = payload.value.metadata.capacityUsed.num * stego.value.metadata.capacityUsed.den

-----------------------------------------------------------------------------
(* Matrices of another side, under Spec                                    *)

\* C16: decodeFromMatrix fails with "Matrix size mismatch" whenever the side
\* of the scanned matrix differs from the side of the reference matrix
\* regenerated from the primary at level H; no module is read before that.
C16_SizeMismatch ==
    (payload # None /\ ~HasReferenceSide(scanned, primary))
        => payload = Throw(SizeMismatch)

\* C16 witness: a code encoded at level L, of a smaller version than the
\* reference, was handed to decodeFromMatrix and refused.
C16_Witness ==
    /\ payload = Throw(SizeMismatch)
    /\ scanned # None
    /\ Cardinality(DOMAIN scanned) < EngineEncodeText(primary, ECLevel_H).size

-----------------------------------------------------------------------------
(* Checksum failures in the two decoders, under Spec                       *)

\* The frame the decoders read from the scanned matrix fails its checksum.
ChecksumFails(scannedMatrix, primaryMessage) ==
    /\ HasReferenceSide(scannedMatrix, primaryMessage)
    /\ LET referenceQR == EngineEncodeText(primaryMessage, ECLevel_H)
           flippableModules == identifyFlippableModules(convertToFullQRMatrix(referenceQR))
           flipPositions == compareMatrices(scannedMatrix, qrToModuleMatrix(referenceQR),
                                            flippableModules).value
       IN  /\ flipPositions # {}
           /\ decodeSecondaryMessage(extractBitsFromFlips(flipPositions, flippableModules))
                = Throw(ChecksumMismatch)

\* C17: the checksum mismatch is suppressed only by decode (image mode) and
\* only when strictChecksum is false, the secondary then being ""; with
\* strictChecksum true (the default) and in decodeFromMatrix it reaches the
\* caller.
C17_ChecksumSuppression ==
    (/\ scanned # None
     /\ payload # None \/ (imagePayload # None /\ imagePayload # Throw(NoQRCodeFound))
     /\ ChecksumFails(scanned, primary))
        => /\ payload # None => payload = Throw(ChecksumMismatch)
           /\ (imagePayload # None /\ imagePayload # Throw(NoQRCodeFound))
                  => IF decodeOptions = [strictChecksum |-> FALSE,
                                         maxMessageSize |-> DEFAULT_MAX_MESSAGE_SIZE]
                     THEN imagePayload.ok /\ imagePayload.value.secondaryMessage = <<>>
                     ELSE imagePayload = Throw(ChecksumMismatch)

\* C17 witness: decode was called without options on an image whose frame
\* fails the checksum, and threw.
C17_Witness ==
    /\ scanned # None /\ ChecksumFails(scanned, primary)
    /\ decodeOptions = [maxMessageSize |-> DEFAULT_MAX_MESSAGE_SIZE]
    /\ imagePayload = Throw(ChecksumMismatch)

-----------------------------------------------------------------------------
(* SpecCrc: calculateChecksum of utils/bit-utils.ts on byte sequences      *)

\* Bytes the sequences are built from: all bits clear, the lowest bit, the
\* highest bit, all bits set, and an ASCII digit.
CrcBytes == {0, 1, 49, 128, 255}

MaxDataLen == 3

\* The ASCII digits "123456789", the check input of the CRC catalogues.
CheckInput == <<49, 50, 51, 52, 53, 54, 55, 56, 57>>

CrcInputs == UNION {[1..n -> CrcBytes] : n \in 0..MaxDataLen} \cup {CheckInput}

CrcInit ==
    /\ crcInput \in CrcInputs
    /\ crcResult = None
    /\ FrameIdle /\ DistIdle /\ QrIdle /\ CapIdle /\ CodecIdle /\ PrimeIdle

\* calculateChecksum(data)
Checksum ==
    /\ crcResult = None
    /\ crcResult' = Return(calculateChecksum(crcInput))
    /\ UNCHANGED crcInput
    /\ UNCHANGED <<frameVars, distVars, qrVars, capVars, codecVars, primeVars>>

CrcNext == Checksum

SpecCrc == CrcInit /\ [][CrcNext]_vars

\* CRC-16/CCITT-FALSE on a register of 16 bits: one shift, MSB first, with
\* the polynomial 0x1021 fed back when the bit shifted out is set.
Crc16Shift(reg) ==
    IF reg >= 32768 THEN BitXor((2 * reg) % 65536, 4129, 16) ELSE (2 * reg) % 65536

RECURSIVE Crc16Reference(_, _, _)
\* The reference from byte i on: the byte enters the high half of the
\* register, eight shifts follow; no reflection, no final XOR.
Crc16Reference(bytes, i, reg) ==
    IF i > Len(bytes) THEN reg
    ELSE LET entered == BitXor(reg, bytes[i] * 256, 16)
             shifted == Crc16Shift(Crc16Shift(Crc16Shift(Crc16Shift(
                        Crc16Shift(Crc16Shift(Crc16Shift(Crc16Shift(entered))))))))
         IN  IF shifted \in 0..65535 THEN Crc16Reference(bytes, i + 1, shifted)
             ELSE shifted

\* C18: calculateChecksum is CRC-16/CCITT-FALSE for every byte sequence: the
\* result lies in 0..0xFFFF, equals the result of the reference that keeps a
\* 16-bit register started at 0xFFFF, and is 0xFFFF for the empty sequence
\* (and 0x29B1 for "123456789").
C18_CrcCcittFalse ==
    crcResult # None
        => /\ crcResult.ok
           /\ crcResult.value \in 0..65535
           /\ crcResult.value = Crc16Reference(crcInput, 1, 65535)
           /\ crcInput = <<>> => crcResult.value = 65535
           /\ crcInput = CheckInput => crcResult.value = 10673

\* C18 witness: a sequence of several bytes, whose working register has had
\* bits shifted above bit 15, was summed.
C18_Witness ==
    /\ crcResult # None
    /\ Len(crcInput) >= 2
    /\ CrcRegister(crcInput, 1, [hi |-> 0, lo |-> CRC_INIT]).hi # 0
    /\ crcResult.value = Crc16Reference(crcInput, 1, 65535)

-----------------------------------------------------------------------------
(* SpecPrime: findLargePrime of utils/prime-utils.ts                       *)

MaxPrimeArg == 100

PrimeInit ==
    /\ primeMax \in (0 - 3)..MaxPrimeArg
    /\ largePrime = None
    /\ FrameIdle /\ DistIdle /\ QrIdle /\ CapIdle /\ CodecIdle /\ CrcIdle

\* findLargePrime(max)
FindLargePrime ==
    /\ largePrime = None
    /\ largePrime' = Return(findLargePrime(primeMax))
    /\ UNCHANGED primeMax
    /\ UNCHANGED <<frameVars, distVars, qrVars, capVars, codecVars, crcVars>>

PrimeNext == FindLargePrime

SpecPrime == PrimeInit /\ [][PrimeNext]_vars

\* p is a prime number: at least 2 and divisible by no number in 2..p-1.
IsPrimeNumber(p) == p >= 2 /\ \A d \in 2..(p - 1) : p % d # 0

\* The largest prime strictly less than m, for m > 2.
LargestPrimeBelow(m) ==
    CHOOSE p \in 2..(m - 1) :
        IsPrimeNumber(p) /\ \A q \in (p + 1)..(m - 1) : ~IsPrimeNumber(q)

\* C19: findLargePrime(m) is the largest prime strictly less than m for
\* every m > 3, and 2 for every m <= 3; 100 gives 97, 50 gives 47, 20 gives
\* 19 and 10 gives 7.
C19_LargestPrimeBelow ==
    largePrime # None
        => /\ primeMax > 3 => largePrime.value = LargestPrimeBelow(primeMax)
           /\ primeMax <= 3 => largePrime.value = 2
           /\ primeMax = 100 => largePrime.value = 97
           /\ primeMax = 50 => largePrime.value = 47
           /\ primeMax = 20 => largePrime.value = 19
           /\ primeMax = 10 => largePrime.value = 7

\* C19 witness: findLargePrime was asked for an argument whose predecessor
\* is composite, and stepped down to the prime below it.
C19_Witness ==
    /\ largePrime # None
    /\ primeMax > 3
    /\ ~IsPrimeNumber(primeMax - 1)
    /\ largePrime.value = LargestPrimeBelow(primeMax)
    /\ largePrime.value < primeMax - 1

-----------------------------------------------------------------------------
(* The modules encode inverts, under Spec                                  *)

\* Step 2 of encode: the base matrix.
EncodeBase(primary_, options_) ==
    convertToQRMatrix(EngineEncodeText(primary_, mapECLevel(options_.ecLevel)))

\* Step 5 of encode: the bits of the frame (none for the empty secondary),
\* F being the flippable list of step 3.
EncodeBits(F, secondary_, options_) ==
    FrameSecondary(secondary_,
                   calculateMaxCapacity(Len(F), options_.ecLevel,
                                        options_.safetyMargin)).value

\* The frame bits that are set.
SetBits(bits) == {j \in 1..Len(bits) : bits[j]}

\* The cells F[idx[i]] of the frame bits i that are set.
CellsOfSetBits(F, bits) ==
    LET idx == generateDistributionPattern(Len(bits), Len(F)).value
    IN  {<<F[idx[i] + 1].x, F[idx[i] + 1].y>> : i \in SetBits(bits)}

\* C20: the matrix encode returns differs from the base matrix exactly at
\* the cells F[idx[i]] of the frame bits i with bits[i] = 1; every other
\* cell keeps its base value; the base matrix is not changed by the call;
\* flippedModuleCount is the number of 1 bits of the frame, hence positive
\* for a non-empty secondary.
C20_FlipsExactlySetBits ==
    (stego # None /\ stego.ok)
        => LET base == EncodeBase(primary, options)
               F == identifyFlippableModules(base)
               out == stego.value.matrix
               bits == EncodeBits(F, secondary, options)
               cells == CellsOfSetBits(F, bits)
           IN  /\ out.size = base.size
               /\ \A y \in 0..(base.size - 1), x \in 0..(base.size - 1) :
                      /\ (out.modules[y][x].value # base.modules[y][x].value)
                             <=> (<<x, y>> \in cells)
                      /\ out.modules[y][x].type = base.modules[y][x].type
               /\ out.flippedModuleCount = Cardinality(SetBits(bits))
               /\ Len(secondary) > 0 => out.flippedModuleCount > 0
               /\ applyFlipsArgument(base, createFlipMap(bits, F).value) = base

\* C20 witness: a non-empty secondary was encoded; some frame bits were
\* set and some clear, and a module of a set bit differs from the base.
C20_Witness ==
    /\ stego # None /\ stego.ok
    /\ Len(secondary) > 0
    /\ LET base == EncodeBase(primary, options)
           F == identifyFlippableModules(base)
           bits == EncodeBits(F, secondary, options)
       IN  /\ stego.value.matrix.flippedModuleCount > 0
           /\ stego.value.matrix.flippedModuleCount < Len(bits)
           /\ \E cell \in CellsOfSetBits(F, bits) :
                  stego.value.matrix.modules[cell[2]][cell[1]].value
                      # base.modules[cell[2]][cell[1]].value
-----------------------------------------------------------------------------
(* The flippable list of the two conversions, under SpecQR                 *)

\* The row-major sweep (y outer, x inner, both ascending) of the cells of
\* which isFunctionPattern does not hold, each entry carrying its 0-based
\* position in the list.
CanonicalFlippable(qr) ==
    LET kept == SelectSeq(SweepOrder(qr.size),
                          LAMBDA c : ~isFunctionPattern(c.x, c.y, qr))
    IN  [i \in 1..Len(kept) |-> [x |-> kept[i].x, y |-> kept[i].y, index |-> i - 1]]

\* C21: the encoder's conversion and the decoder's yield the same flippable
\* list for the same code: the row-major sweep of exactly the cells for
\* which isFunctionPattern is false, each entry's index its position in the
\* list.
C21_SameFlippableList ==
    flippable # None => flippable.value = CanonicalFlippable(qrcode)

\* C21 witness: the encoder's list of a version whose engine map marks
\* modules that isFunctionPattern does not (version 8 and up).
C21_Witness ==
    /\ flippable # None /\ converter = "encoder"
    /\ qrcode.version = 8
    /\ \E i \in 1..Len(flippable.value) :
           EngineIsFunction(qrcode, flippable.value[i].x, flippable.value[i].y)

-----------------------------------------------------------------------------
(* The encoder's pattern and the decoder's walk, under SpecDist            *)

\* C22: for every total >= 1 and every logical bit index i, the module
\* index the decoder reads for bit i, in the pass over the 16 length bits
\* and in the pass over all 32 + 8L bits, equals entry i of the encoder's
\* generateDistributionPattern(need, total), and both equal
\* (i * p) mod total with p = findLargePrime(total).
C22_WalkMatchesPattern ==
    totalModules >= 1
        => LET p == findLargePrime(totalModules) IN
           /\ (pattern # None /\ pattern.ok)
                  => \A i \in 1..Len(pattern.value) :
                         pattern.value[i] = ((i - 1) * p) % totalModules
           /\ walked # None
                  => /\ Len(walked.lengthPass) = 16
                     /\ \A i \in 1..Len(walked.lengthPass) :
                            walked.lengthPass[i] = ((i - 1) * p) % totalModules
                     /\ \A i \in 1..Len(walked.fullPass) :
                            /\ walked.fullPass[i] = ((i - 1) * p) % totalModules
                            /\ walked.fullPass[i] = WalkIndex(i - 1, p, totalModules)
           /\ (pattern # None /\ pattern.ok /\ walked # None)
                  => \A i \in 1..Len(pattern.value) :
                         /\ i <= Len(walked.fullPass) => pattern.value[i] = walked.fullPass[i]
                         /\ i <= 16 => pattern.value[i] = walked.lengthPass[i]

\* C22 witness: the encoder laid out a pattern of at least two bits and the
\* decoder walked the same list, both going round the list (entry 2 is the
\* step p itself).
C22_Witness ==
    /\ totalModules >= 3
    /\ pattern # None /\ pattern.ok /\ Len(pattern.value) >= 2
    /\ walked # None
    /\ pattern.value[2] = findLargePrime(totalModules)
    /\ walked.fullPass[2] = pattern.value[2]
    /\ Len(walked.fullPass) > totalModules

-----------------------------------------------------------------------------
(* The alignment test, under SpecQR                                        *)

\* (x, y) lies within Chebyshev distance 2 of a centre of the version's
\* table that is in none of the three finder quadrants.
NearFreeCenter(x, y, version, size) ==
    LET positions == ALIGNMENT_PATTERN_POSITIONS(version) IN
    \E i \in 1..Len(positions), j \in 1..Len(positions) :
        /\ ~isInFinderPattern(positions[i], positions[j], size)
        /\ Abs(x - positions[i]) <= 2
        /\ Abs(y - positions[j]) <= 2

\* C23: for every version that has a table entry, isInAlignmentPattern
\* holds of a cell (x, y) iff the cell lies within Chebyshev distance 2 of
\* a centre of the table, the centres inside any of the three finder
\* quadrants (top-left, top-right, bottom-left) left out.
C23_AlignmentTest ==
    (flippable # None /\ qrcode.version \in AlignmentTableVersions)
        => \A y \in 0..(qrcode.size - 1), x \in 0..(qrcode.size - 1) :
               isInAlignmentPattern(x, y, qrcode.version)
                   <=> NearFreeCenter(x, y, qrcode.version, qrcode.size)

-----------------------------------------------------------------------------
(* The flip budget, under Spec                                             *)

\* targetFlips of calculateMaxCapacity for the code encode builds:
\* Math.floor(totalFlippableModules * safetyMargin).
TargetFlips(primary_, options_) ==
    (Len(identifyFlippableModules(EncodeBase(primary_, options_))) * options_.safetyMargin)
        \div MARGIN_SCALE

\* C24: for every secondary encode accepts at a safety margin, the number
\* of modules flipped is at most targetFlips = floor(|F| * safetyMargin),
\* whatever the share of 1 bits in the frame.
C24_FlipsWithinBudget ==
    (stego # None /\ stego.ok)
        => stego.value.metadata.flippedModuleCount <= TargetFlips(primary, options)

\* C25: for every safety margin in (0, 1], if validateCapacity(primary,
\* secondary, safetyMargin) returns true then encode with that margin (and
\* the default EC level) completes without an error.
C25_ValidatedEncodes ==
    (/\ valid = Return(TRUE)
     /\ stego # None
     /\ options.ecLevel = ECLevel_H
     /\ options.safetyMargin > 0 /\ options.safetyMargin <= MARGIN_SCALE)
        => stego.ok

-----------------------------------------------------------------------------
(* One flipped bit anywhere in a frame, under SpecFrame                    *)

\* C26: for every frame encodeSecondaryMessage produces, a single bit
\* flipped anywhere in it (length field, payload or CRC field) makes
\* decodeSecondaryMessage throw or return the original message; it never
\* returns a different message.
C26_NoSilentCorruption ==
    (decoded # None /\ flippedBit >= 0)
        => (~decoded.ok \/ decoded.value = message)

-----------------------------------------------------------------------------
(* Two scans of one code, under Spec                                       *)

\* The list indices the decoder's walk visits when flipPositions are the
\* flipped indices of a list of totalModules_ entries: those of its first
\* 32 + 8L turns, L being the length it reads.  The walk returns to index 0
\* after as many turns as the list has entries, so the turns past that
\* number visit nothing new.
VisitedIndices(flipPositions, totalModules_) ==
    LET step == findLargePrime(totalModules_)
        messageLength == BitsToInt([i \in 1..16 |-> WalkIndex(i - 1, step, totalModules_)
                                                        \in flipPositions], 0, 16)
        turns == OVERHEAD_BITS + 8 * messageLength
        distinctTurns == IF turns > totalModules_ THEN totalModules_ ELSE turns
    IN  {WalkIndex(i, step, totalModules_) : i \in 0..(distinctTurns - 1)}

\* Two matrices hold the same values at the cells F lists under the indices
\* the walk visits for flipPositions, and one of those indices is flipped.
AgreeOn(first, second, F, flipPositions, visited) ==
    /\ visited \cap flipPositions # {}
    /\ \A m \in visited : first[F[m + 1].y][F[m + 1].x] = second[F[m + 1].y][F[m + 1].x]

\* The same, F being the flippable list of the reference code and the
\* flipped indices those of the first matrix against the reference.
AgreeOnList(first, second, reference, F) ==
    /\ Cardinality(DOMAIN first) = Cardinality(DOMAIN reference)
    /\ Cardinality(DOMAIN second) = Cardinality(DOMAIN reference)
    /\ LET flipPositions == compareMatrices(first, reference, F).value
       IN  AgreeOn(first, second, F, flipPositions,
                   VisitedIndices(flipPositions, Len(F)))

\* Two matrices of the reference's size agree on the cells of the indices
\* the walk visits in the first, and one of those cells differs from the
\* reference.
AgreeWhereVisited(first, second, primaryMessage) ==
    AgreeOnList(first, second,
                qrToModuleMatrix(EngineEncodeText(primaryMessage, ECLevel_H)),
                ReferenceFlippable(primaryMessage))

\* Two results of decodeFromMatrix carry the same secondary or the same error.
SameSecondary(one, other) ==
    IF one.ok THEN other.ok /\ other.value.secondaryMessage = one.value.secondaryMessage
    ELSE other = one

\* C27: the secondary decodeFromMatrix returns depends only on the scanned
\* cells at the flippable positions of the first 32 + 8L walk turns: two
\* scanned matrices of the reference's size that agree on those cells, one
\* of which differs from the reference, give the same secondary or the same
\* error, whatever they hold at function-pattern cells and at the other
\* flippable cells.
C27_OnlyVisitedCellsMatter ==
    (repayload # None /\ AgreeWhereVisited(scanned, rescanned, primary))
        => SameSecondary(payload, repayload)

\* C27 witness: a second scan that differs from the first at a corner of a
\* finder pattern and at a flippable module the walk does not visit was
\* decoded to the same non-empty secondary.
C27_Witness ==
    /\ payload # None /\ payload.ok /\ repayload # None /\ repayload.ok
    /\ Len(payload.value.secondaryMessage) > 0
    /\ repayload.value.secondaryMessage = payload.value.secondaryMessage
    /\ rescanned[0][0] # scanned[0][0]
    /\ repayload.value.metadata.flippedModuleCount
           > payload.value.metadata.flippedModuleCount
    /\ AgreeWhereVisited(scanned, rescanned, primary)

=============================================================================
